---- MODULE Spec2Model ----
(***************************************************************************)
(* Page-storage layer of PoloDB (src/src/page.rs): the fixed page buffer   *)
(* RawPage, the header page codec header_page_utils, the free list decoder *)
(* FreeList::from_raw and the content page frame ContentPageWrapper; and   *)
(* the last error of the C boundary (src/src/polodb_clib/lib.rs).          *)
(*                                                                         *)
(* A page is the record [page_id, data, pos]; data is the byte vector,     *)
(* Rust's data[i] being data[i + 1] here.  A string is the sequence of its *)
(* UTF-8 bytes.  usize is 64 bits wide, so data.len() + pos never wraps.   *)
(* TLC's integers are 32 bits wide and signed, so a u32 value is the pair  *)
(* of its 16-bit halves <<high, low>> and a u64 value the tuple of its     *)
(* four halves, most significant first; a u16 or u8 value is a number.     *)
(* The cursor pos is a number below 2^31.                                  *)
(***************************************************************************)
EXTENDS Integers, Sequences, FiniteSets, TLC

VARIABLES
    raw,            \* the RawPage: [page_id, data, pos]
    wrapped,        \* TRUE once ContentPageWrapper::new has taken the page
    start_page_id,  \* ContentPageWrapper.start_page_id
    op,             \* the last call
    arg,            \* its argument
    ret,            \* what it returned
    status,         \* "running", or "panicked" after a panic!
    nops,           \* number of calls made
    file,           \* the caller's open File: [bytes, pos]
    DB_GLOBAL_ERROR \* polodb_clib's thread local Option<DbErr>, per thread

vars ==
    <<raw, wrapped, start_page_id, op, arg, ret, status, nops, file,
      DB_GLOBAL_ERROR>>

----------------------------------------------------------------------------
(* Bounds of the model *)

MaxCap == 8
MaxOps == 3
MaxHeaderOps == 3
MaxFreeOps == 4
MaxContentOps == 4
MaxEntries == 2
MaxFileCap == 3
MaxFileOps == 3
MaxClibOps == 3

----------------------------------------------------------------------------
(* Helpers over byte sequences *)

\* seq[from+1 .. from+n] of a byte vector (Rust's &data[from..from+n])
Slice(seq, from, n) == [i \in 1..n |-> seq[from + i]]

\* ptr.offset(at).copy_from(src, src.len()): overwrite bytes at..at+len-1
RECURSIVE CopyInto(_, _, _)
CopyInto(seq, at, src) ==
    IF src = <<>> \/ at >= Len(seq) THEN seq
    ELSE CopyInto([seq EXCEPT ![at + 1] = Head(src)], at + 1, Tail(src))

\* u16::to_le_bytes: least significant byte first
u16_to_le_bytes(v) == <<v % 256, v \div 256>>

\* u16::to_be_bytes: most significant byte first
u16_to_be_bytes(v) == <<v \div 256, v % 256>>

\* u16::from_be_bytes
u16_from_be_bytes(b) == b[1] * 256 + b[2]

\* u32::to_be_bytes of <<high half, low half>>
u32_to_be_bytes(v) == u16_to_be_bytes(v[1]) \o u16_to_be_bytes(v[2])

\* u32::from_be_bytes
u32_from_be_bytes(b) ==
    <<u16_from_be_bytes(SubSeq(b, 1, 2)), u16_from_be_bytes(SubSeq(b, 3, 4))>>

\* u64::to_be_bytes of the four halves, most significant first
u64_to_be_bytes(v) ==
    u16_to_be_bytes(v[1]) \o u16_to_be_bytes(v[2]) \o
    u16_to_be_bytes(v[3]) \o u16_to_be_bytes(v[4])

\* u64::from_be_bytes
u64_from_be_bytes(b) ==
    <<u16_from_be_bytes(SubSeq(b, 1, 2)), u16_from_be_bytes(SubSeq(b, 3, 4)),
      u16_from_be_bytes(SubSeq(b, 5, 6)), u16_from_be_bytes(SubSeq(b, 7, 8))>>

\* The u32 with the value n, n < 2^31, and the value of a u32 below 2^31
U32(n) == <<n \div 65536, n % 65536>>
U32ToNat(v) == v[1] * 65536 + v[2]

----------------------------------------------------------------------------
(* RawPage *)

Ok == "Ok"
SpaceNotEnough == "SpaceNotEnough"
Panic == "Panic"

new(page_id, size) ==
    [page_id |-> page_id, data |-> [i \in 1..size |-> 0], pos |-> 0]

\* Result of a writer: the page afterwards and Ok / SpaceNotEnough / Panic
Wr(page, res) == [page |-> page, res |-> res]

\* Result of a reader: the value, or a panic
Rd(val) == [ok |-> TRUE, val |-> val]
RdPanic == [ok |-> FALSE, val |-> 0]

\* the reader result r is the value v; the reader results r1 and r2 agree
Returns(r, v) == r.ok /\ r.val = v
Same(r1, r2) == r1.ok = r2.ok /\ (r1.ok => r1.val = r2.val)

\* put that copies the bytes that fit before it reports the error
put_partial(page, bytes) ==
    IF Len(bytes) + page.pos > Len(page.data)
    THEN Wr([page EXCEPT !.data = CopyInto(page.data, page.pos, bytes)], SpaceNotEnough)
    ELSE Wr([page EXCEPT !.data = CopyInto(page.data, page.pos, bytes),
                         !.pos = page.pos + Len(bytes)], Ok)

\* put whose capacity check forgets the cursor
put_ignores_cursor(page, bytes) ==
    IF Len(bytes) > Len(page.data)
    THEN Wr(page, SpaceNotEnough)
    ELSE Wr([page EXCEPT !.data = CopyInto(page.data, page.pos, bytes),
                         !.pos = page.pos + Len(bytes)], Ok)

put(page, bytes) ==
    IF Len(bytes) + page.pos > Len(page.data)
    THEN Wr(page, SpaceNotEnough)
    ELSE Wr([page EXCEPT !.data = CopyInto(page.data, page.pos, bytes),
                         !.pos = page.pos + Len(bytes)], Ok)

put_str(page, str) ==
    IF Len(str) + page.pos > Len(page.data)
    THEN Wr(page, SpaceNotEnough)
    ELSE Wr([page EXCEPT !.data = CopyInto(page.data, page.pos, str),
                         !.pos = page.pos + Len(str)], Ok)

get_u8(page, pos) ==
    IF pos < Len(page.data) THEN Rd(page.data[pos + 1]) ELSE RdPanic

\* put_u8 that moves the cursor on, as put does
put_u8_advancing(page, b) ==
    IF page.pos < Len(page.data)
    THEN Wr([page EXCEPT !.data[page.pos + 1] = b, !.pos = page.pos + 1], Ok)
    ELSE Wr(page, Panic)

put_u8(page, b) ==
    IF page.pos < Len(page.data)
    THEN Wr([page EXCEPT !.data[page.pos + 1] = b], Ok)
    ELSE Wr(page, Panic)

put_u16(page, v) == put(page, u16_to_le_bytes(v))

get_u16(page, pos) ==
    IF pos + 2 <= Len(page.data)
    THEN Rd(u16_from_be_bytes(Slice(page.data, pos, 2)))
    ELSE RdPanic

put_u32(page, v) == put(page, u32_to_be_bytes(v))

\* get_u32 that decodes least significant byte first
get_u32_le(page, pos) ==
    IF pos + 4 <= Len(page.data)
    THEN Rd(<<page.data[pos + 4] * 256 + page.data[pos + 3],
              page.data[pos + 2] * 256 + page.data[pos + 1]>>)
    ELSE RdPanic

get_u32(page, pos) ==
    IF pos + 4 <= Len(page.data)
    THEN Rd(u32_from_be_bytes(Slice(page.data, pos, 4)))
    ELSE RdPanic

put_u64(page, v) == put(page, u64_to_be_bytes(v))

get_u64(page, pos) ==
    IF pos + 8 <= Len(page.data)
    THEN Rd(u64_from_be_bytes(Slice(page.data, pos, 8)))
    ELSE RdPanic

seek(page, pos) == [page EXCEPT !.pos = pos]

----------------------------------------------------------------------------
(* RawPage and std::fs::File.  A File is [bytes, pos]: the bytes of the    *)
(* file and the position of the handle.  A call has several outcomes, the  *)
(* file system choosing among them, so it is the set of its outcomes       *)
(* [page, file, res].                                                      *)

IoErr == "IoErr"

\* the bytes of a file after src is written at position at: a write past
\* the end leaves a hole of zero bytes, a write of no byte changes nothing
WriteAt(bytes, at, src) ==
    IF src = <<>> THEN bytes
    ELSE LET end == at + Len(src)
             len == IF end > Len(bytes) THEN end ELSE Len(bytes)
         IN  [i \in 1..len |->
                 IF i > at /\ i <= end THEN src[i - at]
                 ELSE IF i <= Len(bytes) THEN bytes[i]
                 ELSE 0]

\* Read::read for File returns Ok(n) with n <= buf.len(), n no more than
\* the bytes the file has from the position on; Ok(0) for a buffer that is
\* not empty means the end of the file
ReadCounts(len, bytes, at) ==
    LET avail == IF Len(bytes) > at THEN Len(bytes) - at ELSE 0
        most == IF len < avail THEN len ELSE avail
    IN  IF most = 0 THEN {0} ELSE 1..most

sync_to_file(page, f, offset) ==
    \* file.seek(SeekFrom::Start(offset))? fails
    {[page |-> page, file |-> f, res |-> IoErr]}
    \* file.write(..)? fails after the seek
    \cup {[page |-> page, file |-> [f EXCEPT !.pos = offset], res |-> IoErr]}
    \* file.write(..) returns Ok(n) with n <= buf.len(), one attempt that may
    \* write a part of the buffer only; n is dropped, Ok(())
    \cup {[page |-> page,
            file |-> [bytes |-> WriteAt(f.bytes, offset, SubSeq(page.data, 1, n)),
                      pos |-> offset + n],
            res |-> Ok] : n \in 0..Len(page.data)}

read_from_file(page, f, offset) ==
    \* file.seek(SeekFrom::Start(offset))? fails
    {[page |-> page, file |-> f, res |-> IoErr]}
    \* file.read(..)? fails after the seek
    \cup {[page |-> page, file |-> [f EXCEPT !.pos = offset], res |-> IoErr]}
    \* file.read(..) returns Ok(n), which is dropped; Ok(())
    \cup {[page |-> [page EXCEPT !.data = CopyInto(page.data, 0, Slice(f.bytes, offset, n))],
            file |-> [f EXCEPT !.pos = offset + n],
            res |-> Ok] : n \in ReadCounts(Len(page.data), f.bytes, offset)}

----------------------------------------------------------------------------
(* String::from_utf8_lossy: every maximal invalid part becomes U+FFFD *)

REPLACEMENT == <<239, 191, 189>>

At(b, i) == IF i <= Len(b) THEN b[i] ELSE 0

IsCont(x) == x \in 128..191

utf8_char_width(x) ==
    IF x < 128 THEN 1
    ELSE IF x \in 194..223 THEN 2
    ELSE IF x \in 224..239 THEN 3
    ELSE IF x \in 240..244 THEN 4
    ELSE 0

\* the second byte allowed after the first byte x of a 3 or 4 byte sequence
SecondOk(x, y) ==
    \/ x = 224 /\ y \in 160..191
    \/ x \in 225..236 /\ y \in 128..191
    \/ x = 237 /\ y \in 128..159
    \/ x \in 238..239 /\ y \in 128..191
    \/ x = 240 /\ y \in 144..191
    \/ x \in 241..243 /\ y \in 128..191
    \/ x = 244 /\ y \in 128..143

\* number of bytes of the sequence starting at b[i] that are accepted, and
\* whether they form a whole valid sequence
Utf8Chunk(b, i) ==
    LET x == b[i]
        w == utf8_char_width(x)
    IN  IF w = 1 THEN [n |-> 1, valid |-> TRUE]
        ELSE IF w = 2 THEN
            IF IsCont(At(b, i + 1)) THEN [n |-> 2, valid |-> TRUE]
            ELSE [n |-> 1, valid |-> FALSE]
        ELSE IF w = 3 THEN
            IF ~SecondOk(x, At(b, i + 1)) THEN [n |-> 1, valid |-> FALSE]
            ELSE IF ~IsCont(At(b, i + 2)) THEN [n |-> 2, valid |-> FALSE]
            ELSE [n |-> 3, valid |-> TRUE]
        ELSE IF w = 4 THEN
            IF ~SecondOk(x, At(b, i + 1)) THEN [n |-> 1, valid |-> FALSE]
            ELSE IF ~IsCont(At(b, i + 2)) THEN [n |-> 2, valid |-> FALSE]
            ELSE IF ~IsCont(At(b, i + 3)) THEN [n |-> 3, valid |-> FALSE]
            ELSE [n |-> 4, valid |-> TRUE]
        ELSE [n |-> 1, valid |-> FALSE]

RECURSIVE LossyFrom(_, _)
LossyFrom(b, i) ==
    IF i > Len(b) THEN <<>>
    ELSE LET c == Utf8Chunk(b, i)
         IN  (IF c.valid THEN SubSeq(b, i, i + c.n - 1) ELSE REPLACEMENT)
                 \o LossyFrom(b, i + c.n)

from_utf8_lossy(b) == LossyFrom(b, 1)

----------------------------------------------------------------------------
(* header_page_utils *)

\* "PipeappleDB Format v0.1"
HEADER_DESP ==
    <<80, 105, 112, 101, 97, 112, 112, 108, 101, 68, 66, 32,
      70, 111, 114, 109, 97, 116, 32, 118, 48, 46, 49>>
SECTOR_SIZE_OFFSET == 40
PAGE_SIZE_OFFSET == 44
FREE_LIST_OFFSET == 2048

set_title(page, title) == put_str(seek(page, 0), title).page

\* for i in 0..32 { if page.data[i] == 0 { zero_pos = i; break } }:
\* the index of the first zero byte, -1 when there is none among the
\* first 32 bytes, -2 when data[i] runs past the end of the buffer
RECURSIVE ScanZero(_, _)
ScanZero(data, i) ==
    IF i = 32 THEN -1
    ELSE IF i >= Len(data) THEN -2
    ELSE IF data[i + 1] = 0 THEN i
    ELSE ScanZero(data, i + 1)

\* get_title that returns the first 32 bytes when no zero byte is found
get_title_truncating(page) ==
    LET zero_pos == ScanZero(page.data, 0)
    IN  IF zero_pos = -2 THEN RdPanic
        ELSE IF zero_pos = -1 THEN Rd(from_utf8_lossy(SubSeq(page.data, 1, 32)))
        ELSE Rd(from_utf8_lossy(SubSeq(page.data, 1, zero_pos)))

get_title(page) ==
    LET zero_pos == ScanZero(page.data, 0)
    IN  IF zero_pos < 0 THEN RdPanic
        ELSE Rd(from_utf8_lossy(SubSeq(page.data, 1, zero_pos)))

set_version(page, version) == put(seek(page, 32), version).page

get_version(page) ==
    IF 36 <= Len(page.data) THEN Rd(Slice(page.data, 32, 4)) ELSE RdPanic

set_sector_size(page, sector_size) ==
    put_u32(seek(page, SECTOR_SIZE_OFFSET), sector_size).page

get_sector_size(page) == get_u32(page, SECTOR_SIZE_OFFSET)

set_page_size(page, page_size) ==
    put_u32(seek(page, PAGE_SIZE_OFFSET), page_size).page

get_page_size(page) == get_u32(page, PAGE_SIZE_OFFSET)

get_free_list_size(page) == get_u32(page, FREE_LIST_OFFSET)

set_free_list_size(page, size) ==
    put_u32(seek(page, FREE_LIST_OFFSET), size).page

get_free_list_content(page, index) ==
    get_u32(page, index * 4 + FREE_LIST_OFFSET + 8)

\* init that forgets the page size
init_without_page_size(page) ==
    set_sector_size(
        set_version(set_title(page, HEADER_DESP), <<0, 0, 0, 0>>),
        U32(4096))

init(page) ==
    set_page_size(
        set_sector_size(
            set_version(set_title(page, HEADER_DESP), <<0, 0, 0, 0>>),
            U32(4096)),
        U32(4096))

----------------------------------------------------------------------------
(* FreeList *)

\* Vec::insert(index, element): the elements from index on move up by one
Insert(vec, index, element) ==
    SubSeq(vec, 1, index) \o <<element>> \o SubSeq(vec, index + 1, Len(vec))

\* for i in 0..size { data.insert(i, raw_page.get_u32(offset)) }, from i on;
\* a read past the end of the page panics
RECURSIVE FromRawLoop(_, _, _, _)
FromRawLoop(raw_page, size, i, data) ==
    IF i >= size THEN Rd(data)
    ELSE LET e == get_u32(raw_page, FREE_LIST_OFFSET + 8 + i * 4)
         IN  IF ~e.ok THEN RdPanic
             ELSE FromRawLoop(raw_page, size, i + 1, Insert(data, i, e.val))

from_raw(raw_page) ==
    LET size == get_u32(raw_page, FREE_LIST_OFFSET)
        free_list_page_id == get_u32(raw_page, FREE_LIST_OFFSET + 4)
    IN  IF ~size.ok \/ ~free_list_page_id.ok THEN RdPanic
        ELSE LET n == U32ToNat(size.val)
                 \* data.resize(size, 0)
                 data == FromRawLoop(raw_page, n, 0, [i \in 1..n |-> U32(0)])
             IN  IF ~data.ok THEN RdPanic
                 ELSE Rd([free_list_page_id |-> free_list_page_id.val,
                          data |-> data.val])

----------------------------------------------------------------------------
(* ContentPageType and ContentPageWrapper; the wrapper's page is raw *)

ContentPageTypes == <<"Undefined", "FileHeader", "Collection", "BTreeNode">>

\* ty as u8
as_u8(ty) == CHOOSE d \in 0..3 : ContentPageTypes[d + 1] = ty

from_u8(data) == IF data \in 0..3 THEN Rd(ContentPageTypes[data + 1]) ELSE RdPanic

CONTENT_TY_OFFSET == 16

\* Result::expect: an Err panics
expect(w) == IF w.res = Ok THEN w ELSE Wr(w.page, Panic)

magic_key(page) == LET r == get_u16(page, 0) IN IF r.ok THEN Rd(Ok) ELSE RdPanic

set_magic_key(page, key) == expect(put_u16(seek(page, 0), key))

\* set_next_page_id that writes the link where the type byte lies
set_next_page_id_at_ty(page, next_pid) ==
    expect(put_u32(seek(page, CONTENT_TY_OFFSET), next_pid))

set_next_page_id(page, next_pid) == expect(put_u32(seek(page, 32), next_pid))

get_next_page_id(page) == get_u32(page, 32)

ty(page) ==
    LET ty8 == get_u8(page, CONTENT_TY_OFFSET)
    IN  IF ty8.ok THEN from_u8(ty8.val) ELSE RdPanic

\* set_ty that writes the type byte where the link lies
set_ty_at_link(page, t) == put_u8(seek(page, 35), as_u8(t))

set_ty(page, t) == put_u8(seek(page, CONTENT_TY_OFFSET), as_u8(t))

----------------------------------------------------------------------------
(* polodb_clib (src/src/polodb_clib/lib.rs): the C boundary's last error.  *)
(* DB_GLOBAL_ERROR[t] is the thread local Option<DbErr> of thread t, None  *)
(* or the kind of the DbErr.  The database and the documents are behind    *)
(* the caller's pointers: what polodb_core returns to a call is an input   *)
(* of the call, CoreOk(v) or CoreErr(kind).  A PLDB function is an         *)
(* operator of the thread's register and the inputs that gives [reg, ret]: *)
(* the register after the call and what the call returns.                  *)

None == "None"
Threads == {"t1", "t2"}

\* the variants of DbErr
DbErrKinds ==
    {"UnexpectedIdType", "NotAValidKeyType", "ValidationError",
     "InvalidOrderOfIndex", "IndexAlreadyExists",
     "FieldTypeUnexpected", "ParseError", "IOErr", "UTF8Err",
     "DataSizeTooLarge", "DecodeEOF", "BsonErr", "DataOverflow",
     "DataExist", "PageSpaceNotEnough", "DataHasNoPrimaryKey",
     "ChecksumMismatch", "JournalPageSizeMismatch", "SaltMismatch",
     "PageMagicMismatch", "ItemSizeGreaterThanExpected",
     "CollectionNotFound", "CollectionIdNotFound", "MetaPageIdError",
     "CannotWriteDbWithoutTransaction",
     "StartTransactionInAnotherTransaction",
     "RollbackNotInTransaction", "IllegalCollectionName",
     "UnexpectedHeaderForBtreePage", "KeyTypeOfBtreeShouldNotBeZero",
     "UnexpectedPageHeader", "UnexpectedPageType",
     "UnknownTransactionType", "BufferNotEnough",
     "UnknownUpdateOperation", "IncrementNullField", "VmIsHalt",
     "MetaVersionMismatched", "Busy", "InvalidField",
     "CollectionAlreadyExits", "UnableToUpdatePrimaryKey",
     "UnexpectedTypeForOp", "NotAValidDatabase", "DatabaseOccupied",
     "Multiple", "VersionMismatch", "EnumError"}

error_code_of_db_err(err) ==
    CASE err = "UnexpectedIdType" -> 1
      [] err = "NotAValidKeyType" -> 2
      [] err = "ValidationError" -> 3
      [] err = "InvalidOrderOfIndex" -> 4
      [] err = "IndexAlreadyExists" -> 5
      [] err = "FieldTypeUnexpected" -> 6
      [] err = "ParseError" -> 7
      [] err = "IOErr" -> 9
      [] err = "UTF8Err" -> 10
      [] err = "DataSizeTooLarge" -> 12
      [] err = "DecodeEOF" -> 13
      [] err = "BsonErr" -> 14
      [] err = "DataOverflow" -> 15
      [] err = "DataExist" -> 16
      [] err = "PageSpaceNotEnough" -> 17
      [] err = "DataHasNoPrimaryKey" -> 18
      [] err = "ChecksumMismatch" -> 19
      [] err = "JournalPageSizeMismatch" -> 20
      [] err = "SaltMismatch" -> 21
      [] err = "PageMagicMismatch" -> 22
      [] err = "ItemSizeGreaterThanExpected" -> 23
      [] err = "CollectionNotFound" -> 24
      [] err = "CollectionIdNotFound" -> 25
      [] err = "MetaPageIdError" -> 26
      [] err = "CannotWriteDbWithoutTransaction" -> 27
      [] err = "StartTransactionInAnotherTransaction" -> 28
      [] err = "RollbackNotInTransaction" -> 29
      [] err = "IllegalCollectionName" -> 30
      [] err = "UnexpectedHeaderForBtreePage" -> 31
      [] err = "KeyTypeOfBtreeShouldNotBeZero" -> 32
      [] err = "UnexpectedPageHeader" -> 33
      [] err = "UnexpectedPageType" -> 34
      [] err = "UnknownTransactionType" -> 35
      [] err = "BufferNotEnough" -> 36
      [] err = "UnknownUpdateOperation" -> 37
      [] err = "IncrementNullField" -> 38
      [] err = "VmIsHalt" -> 39
      [] err = "MetaVersionMismatched" -> 40
      [] err = "Busy" -> 41
      [] err = "InvalidField" -> 42
      [] err = "CollectionAlreadyExits" -> 43
      [] err = "UnableToUpdatePrimaryKey" -> 44
      [] err = "UnexpectedTypeForOp" -> 45
      [] err = "NotAValidDatabase" -> 46
      [] err = "DatabaseOccupied" -> 47
      [] err = "Multiple" -> 48
      [] err = "VersionMismatch" -> 49
      [] err = "EnumError" -> 50

\* Ok(v) and Err(err) of a polodb_core call
CoreOk(v) == [ok |-> TRUE, val |-> v, err |-> None]
CoreErr(err) == [ok |-> FALSE, val |-> 0, err |-> err]

\* what a call gives: the register after it and what it returns
Out(reg, r) == [reg |-> reg, ret |-> r, panic |-> FALSE]
\* a call that panics
Unwound(reg) == [reg |-> reg, ret |-> Panic, panic |-> TRUE]

\* the register after set_global_error(err)
set_global_error(reg, err) == err

PLDB_error_code(reg) ==
    IF reg # None THEN error_code_of_db_err(reg) * (-1) ELSE 0

\* Err(err) => { set_global_error(err); PLDB_error_code() }
Failed(reg, err) ==
    LET set == set_global_error(reg, err)
    IN  Out(set, PLDB_error_code(set))

\* try_read_utf8!(.., ret): CStr::to_str fails for bytes that are not UTF-8,
\* err.into() is the DbErr of the Utf8Error and ret is evaluated after
\* set_global_error(err.into())
Utf8Error == "UTF8Err"

\* value_parse: a STRING value that is not UTF-8 sets the error and becomes
\* Value::Null; the register after it
value_parse(reg, tag, str_utf8) ==
    IF tag = "STRING" /\ ~str_utf8 THEN set_global_error(reg, Utf8Error) ELSE reg

----------------------------------------------------------------------------
(* Inputs *)

PageIds == {0, 1}
Caps == 0..MaxCap

PutBytes == {<<>>, <<1>>, <<1, 2>>, <<2, 1, 2>>}
\* "", "a", "e-acute" (two bytes)
PutStrs == {<<>>, <<97>>, <<195, 169>>}
U8Vals == {7, 255}
U16Vals == {0, 258, 65535}
U32Vals == {U32(4096), <<258, 772>>, <<65535, 65535>>}
U64Vals == {<<258, 772, 1286, 1800>>, <<65535, 65535, 65535, 65535>>}
\* cursor positions for seek: in bounds, at the end, past the end, far past it
SeekPositions == (0..(MaxCap + 1)) \cup {1073741824}
\* offsets read: the first bytes, the last place a u16 fits, the end
ReadPositions == {0, 1, MaxCap - 2, MaxCap}

----------------------------------------------------------------------------
(* The state machine of one RawPage *)

Running(bound) == status = "running" /\ nops < bound

\* A call that writes: the page becomes w.page, a panic stops the program
Write(o, a, w) ==
    /\ op' = o
    /\ arg' = a
    /\ ret' = w.res
    /\ raw' = w.page
    /\ status' = IF w.res = Panic THEN "panicked" ELSE "running"
    /\ nops' = nops + 1
    /\ UNCHANGED <<wrapped, start_page_id, file, DB_GLOBAL_ERROR>>

\* A call that reads
Read(o, a, r) ==
    /\ op' = o
    /\ arg' = a
    /\ ret' = IF r.ok THEN r.val ELSE Panic
    /\ status' = IF r.ok THEN "running" ELSE "panicked"
    /\ nops' = nops + 1
    /\ UNCHANGED <<raw, wrapped, start_page_id, file, DB_GLOBAL_ERROR>>

InitVars(page) ==
    /\ raw = page
    /\ wrapped = FALSE
    /\ start_page_id = 0
    /\ op = "new"
    /\ arg = <<page.page_id, Len(page.data)>>
    /\ ret = Ok
    /\ status = "running"
    /\ nops = 0
    /\ file = [bytes |-> <<>>, pos |-> 0]
    /\ DB_GLOBAL_ERROR = [t \in Threads |-> None]

Init == \E id \in PageIds, size \in Caps : InitVars(new(id, size))

Put == \E d \in PutBytes : Running(MaxOps) /\ Write("put", d, put(raw, d))
PutStr == \E s \in PutStrs : Running(MaxOps) /\ Write("put_str", s, put_str(raw, s))
PutU8 == \E b \in U8Vals : Running(MaxOps) /\ Write("put_u8", b, put_u8(raw, b))
PutU16 == \E v \in U16Vals : Running(MaxOps) /\ Write("put_u16", v, put_u16(raw, v))
PutU32 == \E v \in U32Vals : Running(MaxOps) /\ Write("put_u32", v, put_u32(raw, v))
PutU64 == \E v \in U64Vals : Running(MaxOps) /\ Write("put_u64", v, put_u64(raw, v))
Seek == \E p \in SeekPositions : Running(MaxOps) /\ Write("seek", p, Wr(seek(raw, p), Ok))
GetU8 == \E p \in ReadPositions : Running(MaxOps) /\ Read("get_u8", p, get_u8(raw, p))
GetU16 == \E p \in ReadPositions : Running(MaxOps) /\ Read("get_u16", p, get_u16(raw, p))
GetU32 == \E p \in ReadPositions : Running(MaxOps) /\ Read("get_u32", p, get_u32(raw, p))
GetU64 == \E p \in ReadPositions : Running(MaxOps) /\ Read("get_u64", p, get_u64(raw, p))

Next ==
    \/ Put
    \/ PutStr
    \/ PutU8
    \/ PutU16
    \/ PutU32
    \/ PutU64
    \/ Seek
    \/ GetU8
    \/ GetU16
    \/ GetU32
    \/ GetU64

Spec == Init /\ [][Next]_vars

----------------------------------------------------------------------------
(* The header page: header_page_utils on a page of 4096 or of 32 bytes *)

HeaderCaps == {32, 4096}
Title31 == [i \in 1..31 |-> 120]
Title32 == [i \in 1..32 |-> 121]
\* "", "a", "aaa", "e-acute", "a\0c", the signature, 31 and 32 bytes
Titles == {<<>>, <<97>>, <<97, 97, 97>>, <<195, 169>>, <<97, 0, 99>>,
           HEADER_DESP, Title31, Title32}
Versions == {<<0, 0, 0, 0>>, <<1, 2, 3, 4>>}
Sizes == {U32(111), <<258, 772>>}

InitHeader == \E size \in HeaderCaps : InitVars(new(0, size))

HInit == Running(MaxHeaderOps) /\ Write("init", <<>>, Wr(init(raw), Ok))
HSetTitle ==
    \E t \in Titles :
        Running(MaxHeaderOps) /\ Write("set_title", t, Wr(set_title(raw, t), Ok))
HSetVersion ==
    \E v \in Versions :
        Running(MaxHeaderOps) /\ Write("set_version", v, Wr(set_version(raw, v), Ok))
HSetSectorSize ==
    \E v \in Sizes :
        Running(MaxHeaderOps)
        /\ Write("set_sector_size", v, Wr(set_sector_size(raw, v), Ok))
HSetPageSize ==
    \E v \in Sizes :
        Running(MaxHeaderOps) /\ Write("set_page_size", v, Wr(set_page_size(raw, v), Ok))
HSetFreeListSize ==
    \E n \in 1..MaxEntries :
        Running(MaxHeaderOps)
        /\ Write("set_free_list_size", U32(n), Wr(set_free_list_size(raw, U32(n)), Ok))
HGetTitle == Running(MaxHeaderOps) /\ Read("get_title", <<>>, get_title(raw))
HGetVersion == Running(MaxHeaderOps) /\ Read("get_version", <<>>, get_version(raw))
HGetSectorSize ==
    Running(MaxHeaderOps) /\ Read("get_sector_size", <<>>, get_sector_size(raw))
HGetPageSize == Running(MaxHeaderOps) /\ Read("get_page_size", <<>>, get_page_size(raw))
HGetFreeListSize ==
    Running(MaxHeaderOps) /\ Read("get_free_list_size", <<>>, get_free_list_size(raw))

NextHeader ==
    \/ HInit
    \/ HSetTitle
    \/ HSetVersion
    \/ HSetSectorSize
    \/ HSetPageSize
    \/ HSetFreeListSize
    \/ HGetTitle
    \/ HGetVersion
    \/ HGetSectorSize
    \/ HGetPageSize
    \/ HGetFreeListSize

SpecHeader == InitHeader /\ [][NextHeader]_vars

----------------------------------------------------------------------------
(* The free list region of a 4096 byte header page, written through        *)
(* set_free_list_size, seek and put_u32 and decoded by FreeList::from_raw  *)

FreeSeeks == {FREE_LIST_OFFSET + 4, FREE_LIST_OFFSET + 8}
FreeVals == {U32(7), <<258, 772>>}

InitFree == InitVars(new(0, 4096))

FSetFreeListSize ==
    \E n \in 0..MaxEntries :
        Running(MaxFreeOps)
        /\ Write("set_free_list_size", U32(n), Wr(set_free_list_size(raw, U32(n)), Ok))
FSeek == \E p \in FreeSeeks : Running(MaxFreeOps) /\ Write("seek", p, Wr(seek(raw, p), Ok))
FPutU32 == \E v \in FreeVals : Running(MaxFreeOps) /\ Write("put_u32", v, put_u32(raw, v))
FFromRaw == Running(MaxFreeOps) /\ Read("from_raw", <<>>, from_raw(raw))
FGetFreeListContent ==
    \E i \in 0..(MaxEntries - 1) :
        Running(MaxFreeOps)
        /\ Read("get_free_list_content", i, get_free_list_content(raw, i))

NextFree ==
    \/ FSetFreeListSize
    \/ FSeek
    \/ FPutU32
    \/ FFromRaw
    \/ FGetFreeListContent

SpecFreeList == InitFree /\ [][NextFree]_vars

----------------------------------------------------------------------------
(* The content page frame: a page is written to, then ContentPageWrapper   *)
(* ::new takes it and only the wrapper's methods reach it                  *)

ContentCaps == {17, 36, 64}
RawTyBytes == {3, 99}
MagicKeys == {258, 65535}
NextPids == {U32(0), U32(5), <<258, 772>>}

InitContent == \E id \in PageIds, size \in ContentCaps : InitVars(new(id, size))

Unwrapped(bound) == Running(bound) /\ ~wrapped
Wrapped(bound) == Running(bound) /\ wrapped

CSeek ==
    Unwrapped(MaxContentOps)
    /\ Write("seek", CONTENT_TY_OFFSET, Wr(seek(raw, CONTENT_TY_OFFSET), Ok))
CPutU8 ==
    \E b \in RawTyBytes : Unwrapped(MaxContentOps) /\ Write("put_u8", b, put_u8(raw, b))
\* ContentPageWrapper::new
CNew ==
    /\ Unwrapped(MaxContentOps)
    /\ wrapped' = TRUE
    /\ start_page_id' = raw.page_id
    /\ op' = "ContentPageWrapper::new"
    /\ arg' = raw.page_id
    /\ ret' = Ok
    /\ nops' = nops + 1
    /\ UNCHANGED <<raw, status, file, DB_GLOBAL_ERROR>>
CSetMagicKey ==
    \E k \in MagicKeys :
        Wrapped(MaxContentOps) /\ Write("set_magic_key", k, set_magic_key(raw, k))
CSetNextPageId ==
    \E x \in NextPids :
        Wrapped(MaxContentOps) /\ Write("set_next_page_id", x, set_next_page_id(raw, x))
CSetTy ==
    \E t \in {ContentPageTypes[i] : i \in 1..4} :
        Wrapped(MaxContentOps) /\ Write("set_ty", t, set_ty(raw, t))
CTy == Wrapped(MaxContentOps) /\ Read("ty", <<>>, ty(raw))
CGetNextPageId ==
    Wrapped(MaxContentOps) /\ Read("get_next_page_id", <<>>, get_next_page_id(raw))
CMagicKey == Wrapped(MaxContentOps) /\ Read("magic_key", <<>>, magic_key(raw))

NextContent ==
    \/ CSeek
    \/ CPutU8
    \/ CNew
    \/ CSetMagicKey
    \/ CSetNextPageId
    \/ CSetTy
    \/ CTy
    \/ CGetNextPageId
    \/ CMagicKey

SpecContent == InitContent /\ [][NextContent]_vars

----------------------------------------------------------------------------
(* A page and an open file: the page is written to, stored with            *)
(* sync_to_file and loaded with read_from_file                             *)

FileCaps == 0..MaxFileCap
InitialFiles == {<<>>, <<9>>, <<9, 8, 7, 6, 5>>}
Offsets == {0, 2}
FilePuts == {<<1>>, <<1, 2>>}

InitFile ==
    \E id \in PageIds, size \in FileCaps, bytes \in InitialFiles :
        /\ raw = new(id, size)
        /\ wrapped = FALSE
        /\ start_page_id = 0
        /\ op = "new"
        /\ arg = <<id, size>>
        /\ ret = Ok
        /\ status = "running"
        /\ nops = 0
        /\ file = [bytes |-> bytes, pos |-> 0]
        /\ DB_GLOBAL_ERROR = [t \in Threads |-> None]

\* A call that takes the file: one of its outcomes happens
FileCall(o, a, outcomes) ==
    \E out \in outcomes :
        /\ op' = o
        /\ arg' = a
        /\ ret' = out.res
        /\ raw' = out.page
        /\ file' = out.file
        /\ nops' = nops + 1
        /\ UNCHANGED <<wrapped, start_page_id, status, DB_GLOBAL_ERROR>>

IoPut == \E d \in FilePuts : Running(MaxFileOps) /\ Write("put", d, put(raw, d))
SyncToFile ==
    \E off \in Offsets :
        Running(MaxFileOps) /\ FileCall("sync_to_file", off, sync_to_file(raw, file, off))
ReadFromFile ==
    \E off \in Offsets :
        Running(MaxFileOps) /\ FileCall("read_from_file", off, read_from_file(raw, file, off))

NextFile ==
    \/ IoPut
    \/ SyncToFile
    \/ ReadFromFile

SpecFile == InitFile /\ [][NextFile]_vars

----------------------------------------------------------------------------
(* The C boundary: threads call the PLDB functions in any order.  arg is   *)
(* the calling thread with the inputs of the call: whether the C strings   *)
(* are UTF-8, the transaction flags, the value's tag, whether the document *)
(* has the key, and what polodb_core returns.                              *)

\* what polodb_core returns on failure, among the variants of DbErr
CoreErrs == {"IOErr", "CollectionNotFound", "Busy"}
UnitResults == {CoreOk(0)} \cup {CoreErr(e) : e \in CoreErrs}
CountResults == {CoreOk(0), CoreOk(2)} \cup {CoreErr(e) : e \in CoreErrs}
BoolResults ==
    {CoreOk(TRUE), CoreOk(FALSE)}
    \cup {[CoreErr(e) EXCEPT !.val = FALSE] : e \in CoreErrs}
Flags == {0, 1, 2, 3}
Tags == {"NULL", "INT", "STRING"}

Inputs(t) ==
    [thread |-> t, utf8 |-> TRUE, key |-> TRUE, flags |-> 0, tag |-> "NULL",
     result |-> CoreOk(0)]

InitClib ==
    /\ raw = new(0, 0)
    /\ wrapped = FALSE
    /\ start_page_id = 0
    /\ op = "thread_local!"
    /\ arg = <<>>
    /\ ret = None
    /\ status = "running"
    /\ nops = 0
    /\ file = [bytes |-> <<>>, pos |-> 0]
    /\ DB_GLOBAL_ERROR = [t \in Threads |-> None]

\* The thread a.thread calls o with the inputs a; out is o's [reg, ret]
Call(o, a, out) ==
    /\ op' = o
    /\ arg' = a
    /\ ret' = out.ret
    /\ DB_GLOBAL_ERROR' = [DB_GLOBAL_ERROR EXCEPT ![a.thread] = out.reg]
    /\ status' = IF out.panic THEN "panicked" ELSE "running"
    /\ nops' = nops + 1
    /\ UNCHANGED <<raw, wrapped, start_page_id, file>>

\* null for a path that is not UTF-8 and for a database that does not
\* open, the error set in both cases
PLDB_open ==
    \E t \in Threads, u \in BOOLEAN, r \in UnitResults :
        Running(MaxClibOps)
        /\ Call("PLDB_open", [Inputs(t) EXCEPT !.utf8 = u, !.result = r],
                IF ~u THEN Out(set_global_error(DB_GLOBAL_ERROR[t], Utf8Error), "null")
                ELSE IF r.ok THEN Out(DB_GLOBAL_ERROR[t], "ptr")
                ELSE Out(set_global_error(DB_GLOBAL_ERROR[t], r.err), "null"))
PLDB_start_transaction ==
    \E t \in Threads, f \in Flags, r \in UnitResults :
        Running(MaxClibOps)
        /\ Call("PLDB_start_transaction",
                [Inputs(t) EXCEPT !.flags = f, !.result = r],
                IF f \notin {0, 1, 2} THEN Failed(DB_GLOBAL_ERROR[t], "UnknownTransactionType")
                ELSE IF r.ok THEN Out(DB_GLOBAL_ERROR[t], 0)
                ELSE Failed(DB_GLOBAL_ERROR[t], r.err))
PLDB_rollback ==
    \E t \in Threads, r \in UnitResults :
        Running(MaxClibOps)
        /\ Call("PLDB_rollback", [Inputs(t) EXCEPT !.result = r],
                IF r.ok THEN Out(DB_GLOBAL_ERROR[t], 0) ELSE Failed(DB_GLOBAL_ERROR[t], r.err))
PLDB_commit ==
    \E t \in Threads, r \in UnitResults :
        Running(MaxClibOps)
        /\ Call("PLDB_commit", [Inputs(t) EXCEPT !.result = r],
                IF r.ok THEN Out(DB_GLOBAL_ERROR[t], 0) ELSE Failed(DB_GLOBAL_ERROR[t], r.err))
PLDB_count ==
    \E t \in Threads, r \in CountResults :
        Running(MaxClibOps)
        /\ Call("PLDB_count", [Inputs(t) EXCEPT !.result = r],
                IF r.ok THEN Out(DB_GLOBAL_ERROR[t], r.val) ELSE Failed(DB_GLOBAL_ERROR[t], r.err))
PLDB_create_collection ==
    \E t \in Threads, u \in BOOLEAN, r \in UnitResults :
        Running(MaxClibOps)
        /\ Call("PLDB_create_collection", [Inputs(t) EXCEPT !.utf8 = u, !.result = r],
                IF ~u THEN Failed(DB_GLOBAL_ERROR[t], Utf8Error)
                ELSE IF r.ok THEN Out(DB_GLOBAL_ERROR[t], 0)
                ELSE Failed(DB_GLOBAL_ERROR[t], r.err))
PLDB_drop ==
    \E t \in Threads, r \in UnitResults :
        Running(MaxClibOps)
        /\ Call("PLDB_drop", [Inputs(t) EXCEPT !.result = r],
                IF r.ok THEN Out(DB_GLOBAL_ERROR[t], 0) ELSE Failed(DB_GLOBAL_ERROR[t], r.err))
PLDB_get_collection_meta_by_name ==
    \E t \in Threads, u \in BOOLEAN, r \in UnitResults :
        Running(MaxClibOps)
        /\ Call("PLDB_get_collection_meta_by_name", [Inputs(t) EXCEPT !.utf8 = u, !.result = r],
                IF ~u THEN Failed(DB_GLOBAL_ERROR[t], Utf8Error)
                ELSE IF r.ok THEN Out(DB_GLOBAL_ERROR[t], 0)
                ELSE Failed(DB_GLOBAL_ERROR[t], r.err))
\* Ok(true) => 1, Ok(false) => 0
PLDB_insert ==
    \E t \in Threads, r \in BoolResults :
        Running(MaxClibOps)
        /\ Call("PLDB_insert", [Inputs(t) EXCEPT !.result = r],
                IF r.ok THEN Out(DB_GLOBAL_ERROR[t], IF r.val THEN 1 ELSE 0)
                ELSE Failed(DB_GLOBAL_ERROR[t], r.err))
PLDB_find ==
    \E t \in Threads, r \in UnitResults :
        Running(MaxClibOps)
        /\ Call("PLDB_find", [Inputs(t) EXCEPT !.result = r],
                IF r.ok THEN Out(DB_GLOBAL_ERROR[t], 0) ELSE Failed(DB_GLOBAL_ERROR[t], r.err))
PLDB_update ==
    \E t \in Threads, r \in CountResults :
        Running(MaxClibOps)
        /\ Call("PLDB_update", [Inputs(t) EXCEPT !.result = r],
                IF r.ok THEN Out(DB_GLOBAL_ERROR[t], r.val) ELSE Failed(DB_GLOBAL_ERROR[t], r.err))
PLDB_delete ==
    \E t \in Threads, r \in CountResults :
        Running(MaxClibOps)
        /\ Call("PLDB_delete", [Inputs(t) EXCEPT !.result = r],
                IF r.ok THEN Out(DB_GLOBAL_ERROR[t], r.val) ELSE Failed(DB_GLOBAL_ERROR[t], r.err))
PLDB_delete_all ==
    \E t \in Threads, r \in CountResults :
        Running(MaxClibOps)
        /\ Call("PLDB_delete_all", [Inputs(t) EXCEPT !.result = r],
                IF r.ok THEN Out(DB_GLOBAL_ERROR[t], r.val) ELSE Failed(DB_GLOBAL_ERROR[t], r.err))
ClibErrorCode ==
    \E t \in Threads :
        Running(MaxClibOps)
        /\ Call("PLDB_error_code", Inputs(t),
                Out(DB_GLOBAL_ERROR[t], PLDB_error_code(DB_GLOBAL_ERROR[t])))
\* the message buffer is not modelled: null without an error
PLDB_error_msg ==
    \E t \in Threads :
        Running(MaxClibOps)
        /\ Call("PLDB_error_msg", Inputs(t),
                Out(DB_GLOBAL_ERROR[t], IF DB_GLOBAL_ERROR[t] # None THEN "ptr" ELSE "null"))
\* PLDB_version, PLDB_close, PLDB_mk_doc, PLDB_free_doc and PLDB_doc_len
\* neither read nor write the error
ClibOther ==
    \E t \in Threads,
       o \in {"PLDB_version", "PLDB_close", "PLDB_mk_doc", "PLDB_free_doc",
              "PLDB_doc_len"} :
        Running(MaxClibOps) /\ Call(o, Inputs(t), Out(DB_GLOBAL_ERROR[t], None))
\* ckey.to_str().unwrap() panics for a key that is not UTF-8, before
\* value_parse; "TODO: error handle", 0 is returned
PLDB_doc_set ==
    \E t \in Threads, k \in BOOLEAN, g \in Tags, u \in BOOLEAN :
        Running(MaxClibOps)
        /\ Call("PLDB_doc_set", [Inputs(t) EXCEPT !.key = k, !.tag = g, !.utf8 = u],
                IF ~k THEN Unwound(DB_GLOBAL_ERROR[t])
                ELSE Out(value_parse(DB_GLOBAL_ERROR[t], g, u), 0))
\* rdoc.get(rkey).unwrap() panics for a key the document has not
PLDB_doc_get ==
    \E t \in Threads, k \in BOOLEAN :
        Running(MaxClibOps)
        /\ Call("PLDB_doc_get", [Inputs(t) EXCEPT !.key = k],
                IF k THEN Out(DB_GLOBAL_ERROR[t], 0) ELSE Unwound(DB_GLOBAL_ERROR[t]))

NextClib ==
    \/ PLDB_open
    \/ PLDB_start_transaction
    \/ PLDB_rollback
    \/ PLDB_commit
    \/ PLDB_count
    \/ PLDB_create_collection
    \/ PLDB_drop
    \/ PLDB_get_collection_meta_by_name
    \/ PLDB_insert
    \/ PLDB_find
    \/ PLDB_update
    \/ PLDB_delete
    \/ PLDB_delete_all
    \/ ClibErrorCode
    \/ PLDB_error_msg
    \/ ClibOther
    \/ PLDB_doc_set
    \/ PLDB_doc_get

SpecClib == InitClib /\ [][NextClib]_vars

----------------------------------------------------------------------------
(* Claims about RawPage, checked under Spec *)

SeqWriters == {"put", "put_str", "put_u16", "put_u32", "put_u64"}

\* Number of bytes the sequential writer o hands to put for the argument a
WrittenLen(o, a) ==
    CASE o \in {"put", "put_str"} -> Len(a)
      [] o = "put_u16" -> 2
      [] o = "put_u32" -> 4
      [] o = "put_u64" -> 8

\* C1: a put, put_str, put_u16, put_u32 or put_u64 of n bytes called with
\* n + cursor > capacity (the cursor may already be past the capacity after a
\* seek) returns SpaceNotEnough and leaves the cursor and every byte unchanged.
C1_PutBeyondCapacityRejected ==
    [][(op' \in SeqWriters /\ WrittenLen(op', arg') + raw.pos > Len(raw.data))
          => (ret' = SpaceNotEnough /\ raw' = raw)]_vars

\* C1 witness: a rejected write on a page that holds data, with the cursor
\* past the capacity.
C1_Witness ==
    /\ op \in SeqWriters
    /\ ret = SpaceNotEnough
    /\ raw.pos > Len(raw.data)
    /\ \E i \in 1..Len(raw.data) : raw.data[i] # 0

\* C2 as claimed: the cursor never exceeds the capacity.
C2_CursorWithinCapacity == raw.pos <= Len(raw.data)

\* C2 amended: a sequential write that returns Ok leaves cursor <= capacity,
\* and every call other than seek keeps cursor <= capacity when it held
\* before; seek alone can move the cursor past the capacity.
C2_OnlySeekLeavesCapacity ==
    [][((op' \in SeqWriters /\ ret' = Ok) \/ (op' # "seek" /\ raw.pos <= Len(raw.data)))
          => raw'.pos <= Len(raw'.data)]_vars

\* C2 witness: a write that exactly fills the page, the cursor at capacity.
C2_Witness ==
    /\ op \in SeqWriters
    /\ ret = Ok
    /\ WrittenLen(op, arg) > 0
    /\ raw.pos = Len(raw.data)

\* C3 as claimed: get_u16 at the offset where put_u16(v) wrote returns v.
C3_U16RoundTrip ==
    (op = "put_u16" /\ ret = Ok) => Returns(get_u16(raw, raw.pos - 2), arg)

\* C4: put_u8, put_u32, put_u64 at a cursor p where the value fits succeed,
\* the reader of the same width at p returns the value written, and the 32
\* and 64 bit values lie most significant byte first.
C4_RoundTrip_8_32_64 ==
    [][/\ (op' = "put_u8" /\ raw.pos + 1 <= Len(raw.data))
            => (ret' = Ok /\ Returns(get_u8(raw', raw.pos), arg'))
       /\ (op' = "put_u32" /\ raw.pos + 4 <= Len(raw.data))
            => /\ ret' = Ok
               /\ Returns(get_u32(raw', raw.pos), arg')
               /\ Slice(raw'.data, raw.pos, 4) =
                     <<arg'[1] \div 256, arg'[1] % 256, arg'[2] \div 256, arg'[2] % 256>>
       /\ (op' = "put_u64" /\ raw.pos + 8 <= Len(raw.data))
            => /\ ret' = Ok
               /\ Returns(get_u64(raw', raw.pos), arg')
               /\ Slice(raw'.data, raw.pos, 8) =
                     <<arg'[1] \div 256, arg'[1] % 256, arg'[2] \div 256, arg'[2] % 256,
                       arg'[3] \div 256, arg'[3] % 256, arg'[4] \div 256, arg'[4] % 256>>
      ]_vars

\* C4 witness: a 32-bit value with four different bytes written at a
\* cursor other than 0, that is after a seek or an earlier write.
C4_Witness ==
    /\ op = "put_u32"
    /\ ret = Ok
    /\ arg = <<258, 772>>
    /\ raw.pos > 4

\* C12: put_u8(b) stores b at the byte the cursor points to and changes
\* neither the cursor nor any other byte, never returns SpaceNotEnough, and
\* panics, changing nothing, when the cursor is at or past the capacity.
C12_PutU8AtCursor ==
    [][op' = "put_u8"
          => /\ ret' # SpaceNotEnough
             /\ raw'.pos = raw.pos
             /\ raw'.page_id = raw.page_id
             /\ Len(raw'.data) = Len(raw.data)
             /\ IF raw.pos >= Len(raw.data)
                THEN ret' = Panic /\ status' = "panicked" /\ raw' = raw
                ELSE /\ ret' = Ok
                     /\ raw'.data[raw.pos + 1] = arg'
                     /\ \A i \in 1..Len(raw.data) :
                            i # raw.pos + 1 => raw'.data[i] = raw.data[i]
      ]_vars

\* C12 witness: a put filled the page, leaving the cursor at the capacity,
\* and the put_u8 that followed panicked.
C12_Witness ==
    /\ op = "put_u8"
    /\ ret = Panic
    /\ Len(raw.data) > 0
    /\ raw.pos = Len(raw.data)
    /\ raw.data[Len(raw.data)] # 0

----------------------------------------------------------------------------
(* Claims about the page and the file, checked under SpecFile *)

FileOps == {"sync_to_file", "read_from_file"}

\* C11 as claimed: a sync_to_file(file, off) that returns Ok leaves the whole
\* buffer in the file at [off, off + capacity); a read_from_file(file, off)
\* that returns Ok leaves in the whole buffer the file's bytes at
\* [off, off + capacity), the file having that many; neither changes the
\* cursor or the page id.
C11_WholePageTransferred ==
    [][LET cap == Len(raw.data)
       IN  /\ (op' = "sync_to_file" /\ ret' = Ok)
                => \/ cap = 0
                   \/ /\ Len(file'.bytes) >= arg' + cap
                      /\ Slice(file'.bytes, arg', cap) = raw.data
           /\ (op' = "read_from_file" /\ ret' = Ok)
                => \/ cap = 0
                   \/ /\ Len(file.bytes) >= arg' + cap
                      /\ raw'.data = Slice(file.bytes, arg', cap)
           /\ op' \in FileOps
                => /\ raw'.pos = raw.pos
                   /\ raw'.page_id = raw.page_id
                   /\ Len(raw'.data) = cap
      ]_vars

\* What holds of the code: neither call changes the cursor, the page id or
\* the capacity, sync_to_file leaves the buffer alone and read_from_file
\* the file's bytes.
C11_CursorAndIdKept ==
    [][op' \in FileOps
          => /\ raw'.pos = raw.pos
             /\ raw'.page_id = raw.page_id
             /\ Len(raw'.data) = Len(raw.data)
             /\ op' = "sync_to_file" => raw'.data = raw.data
             /\ op' = "read_from_file" => file'.bytes = file.bytes
      ]_vars

----------------------------------------------------------------------------
(* Claims about the C boundary, checked under SpecClib *)

\* the calls whose return value is an integer status
StatusCalls ==
    {"PLDB_start_transaction", "PLDB_rollback", "PLDB_commit", "PLDB_count",
     "PLDB_create_collection", "PLDB_drop", "PLDB_get_collection_meta_by_name",
     "PLDB_insert", "PLDB_find", "PLDB_update", "PLDB_delete",
     "PLDB_delete_all", "PLDB_doc_set", "PLDB_doc_get"}

\* the calls that ask polodb_core
CoreCalls ==
    {"PLDB_open", "PLDB_start_transaction", "PLDB_rollback", "PLDB_commit",
     "PLDB_count", "PLDB_create_collection", "PLDB_drop",
     "PLDB_get_collection_meta_by_name", "PLDB_insert", "PLDB_find",
     "PLDB_update", "PLDB_delete", "PLDB_delete_all"}

\* the calls that convert a C string of the caller with try_read_utf8!
Utf8Calls ==
    {"PLDB_open", "PLDB_create_collection", "PLDB_get_collection_meta_by_name"}

\* The failure the call o meets with the inputs a, None for a call that
\* succeeds: a string that is not UTF-8, unknown transaction flags, or
\* the error of polodb_core
Failure(o, a) ==
    IF o \in Utf8Calls /\ ~a.utf8 THEN Utf8Error
    ELSE IF o = "PLDB_doc_set" /\ a.tag = "STRING" /\ ~a.utf8 THEN Utf8Error
    ELSE IF o = "PLDB_start_transaction" /\ a.flags \notin {0, 1, 2}
         THEN "UnknownTransactionType"
    ELSE IF o \in CoreCalls /\ ~a.result.ok THEN a.result.err
    ELSE None

\* the code of every error kind is in 1..50 and no two kinds share a code
CodesDistinct ==
    \A e1, e2 \in DbErrKinds :
        /\ error_code_of_db_err(e1) \in 1..50
        /\ e1 # e2 => error_code_of_db_err(e1) # error_code_of_db_err(e2)

\* what a call that does not panic does to the last error, as claimed: it
\* leaves the other threads' error code alone; if it succeeds it leaves its
\* own thread's too; if it fails its thread's error code becomes -k, k the
\* code of the failure, and the call returns -k if it returns a status
LastErrorStep(o, a, r, before, after) ==
    LET f == Failure(o, a)
    IN  /\ \A t \in Threads \ {a.thread} :
              PLDB_error_code(after[t]) = PLDB_error_code(before[t])
        /\ f = None =>
              PLDB_error_code(after[a.thread]) = PLDB_error_code(before[a.thread])
        /\ f # None =>
              /\ PLDB_error_code(after[a.thread]) = - error_code_of_db_err(f)
              /\ o \in StatusCalls => r = - error_code_of_db_err(f)

\* C14 as claimed: on every thread PLDB_error_code() is 0 at the start, a
\* call that succeeds leaves it as it is (0 until the first failing call,
\* never reset after it), a failing call makes it -k with k in 1..50 the
\* code of its failure, distinct for distinct kinds, and returns -k if it
\* returns an integer status.
C14_LastErrorRegister ==
    /\ [](CodesDistinct /\ (nops = 0 => \A t \in Threads : PLDB_error_code(DB_GLOBAL_ERROR[t]) = 0))
    /\ [][status' # "panicked"
             => LastErrorStep(op', arg', ret', DB_GLOBAL_ERROR, DB_GLOBAL_ERROR')]_vars

\* What holds of the code: C14 of every call but PLDB_doc_set.
C14_ExceptDocSet ==
    /\ [](CodesDistinct /\ (nops = 0 => \A t \in Threads : PLDB_error_code(DB_GLOBAL_ERROR[t]) = 0))
    /\ [][(status' # "panicked" /\ op' # "PLDB_doc_set")
             => LastErrorStep(op', arg', ret', DB_GLOBAL_ERROR, DB_GLOBAL_ERROR')]_vars

----------------------------------------------------------------------------
(* Claims about the free list, checked under SpecFreeList *)

\* C5 as claimed: with the count N at 2048, the link L at 2052 and N entries
\* from 2056 on, all inside the page, from_raw returns the link L and
\* exactly the N entries, in order.
C5_FreeListRoundTrip ==
    LET n == U32ToNat(get_free_list_size(raw).val)
        r == from_raw(raw)
    IN  FREE_LIST_OFFSET + 8 + 4 * n <= Len(raw.data)
        => /\ r.ok
           /\ r.val.free_list_page_id = get_u32(raw, FREE_LIST_OFFSET + 4).val
           /\ r.val.data = [i \in 1..n |-> get_free_list_content(raw, i - 1).val]

----------------------------------------------------------------------------
(* Claims about the header page, checked under SpecHeader *)

ZeroFree(str) == \A i \in 1..Len(str) : str[i] # 0

\* C6 as claimed: on a 4096 byte page, whatever was written before, get_title
\* after set_title(s) returns s when s is shorter than 32 bytes and has no
\* zero byte.
C6_TitleRoundTrip ==
    (op = "set_title" /\ Len(raw.data) = 4096 /\ Len(arg) < 32 /\ ZeroFree(arg))
        => Returns(get_title(raw), arg)

\* C7: after init on a fresh page with id 0 and 4096 bytes the title is the
\* signature, the version four zero bytes, sector size and page size 4096
\* and the free list size 0.
C7_InitOnFreshPage ==
    (op = "init" /\ nops = 1 /\ raw.page_id = 0 /\ Len(raw.data) = 4096)
        => /\ Returns(get_title(raw), HEADER_DESP)
           /\ Returns(get_version(raw), <<0, 0, 0, 0>>)
           /\ Returns(get_sector_size(raw), U32(4096))
           /\ Returns(get_page_size(raw), U32(4096))
           /\ Returns(get_free_list_size(raw), U32(0))

\* C7 witness: init was the first call on the 4096 byte page 0.
C7_Witness ==
    op = "init" /\ nops = 1 /\ raw.page_id = 0 /\ Len(raw.data) = 4096

HasZero32(data) == \E i \in 1..32 : data[i] = 0

\* the bytes before the first zero byte among the first 32
TitleBytes(data) ==
    LET k == CHOOSE k \in 1..32 : data[k] = 0 /\ \A j \in 1..(k - 1) : data[j] # 0
    IN  SubSeq(data, 1, k - 1)

\* C10 as claimed: on a page of at least 32 bytes get_title panics exactly
\* when none of the first 32 bytes is zero, and otherwise returns the bytes
\* before the first zero byte.
C10_TitleIsBytesBeforeZero ==
    Len(raw.data) >= 32
        => LET r == get_title(raw)
           IN  /\ ~r.ok <=> ~HasZero32(raw.data)
               /\ r.ok => r.val = TitleBytes(raw.data)

\* C10 amended: get_title panics exactly when none of the first 32 bytes is
\* zero; otherwise it returns the lossy UTF-8 decoding of the bytes before
\* the first zero byte, never more than those: the bytes themselves when
\* they are ASCII, and U+FFFD in place of every invalid sequence.
C10_TitleIsLossyDecoding ==
    Len(raw.data) >= 32
        => LET r == get_title(raw)
           IN  /\ ~r.ok <=> ~HasZero32(raw.data)
               /\ r.ok =>
                    LET t == TitleBytes(raw.data)
                    IN  /\ r.val = from_utf8_lossy(t)
                        /\ (\A i \in 1..Len(t) : t[i] < 128) => r.val = t

\* C10 witness: a zero-free title of 32 bytes was set and get_title panics.
C10_Witness ==
    /\ op = "set_title"
    /\ arg = Title32
    /\ Len(raw.data) >= 32
    /\ ~get_title(raw).ok

HeaderSetters ==
    {"set_title", "set_version", "set_sector_size", "set_page_size",
     "set_free_list_size"}

\* what every getter of the header returns for the page
HeaderFields(page) ==
    [title |-> get_title(page),
     version |-> get_version(page),
     sector_size |-> get_sector_size(page),
     page_size |-> get_page_size(page),
     free_list_size |-> get_free_list_size(page),
     free_list_content |->
        [i \in 0..(MaxEntries - 1) |-> get_free_list_content(page, i)]]

\* the field the setter o writes
FieldOf(o) ==
    CASE o = "set_title" -> "title"
      [] o = "set_version" -> "version"
      [] o = "set_sector_size" -> "sector_size"
      [] o = "set_page_size" -> "page_size"
      [] o = "set_free_list_size" -> "free_list_size"

\* the getter results of the pages p and q agree on every field but f
SameButField(p, q, f) ==
    LET a == HeaderFields(p)
        b == HeaderFields(q)
    IN  /\ f # "title" => Same(a.title, b.title)
        /\ f # "version" => Same(a.version, b.version)
        /\ f # "sector_size" => Same(a.sector_size, b.sector_size)
        /\ f # "page_size" => Same(a.page_size, b.page_size)
        /\ f # "free_list_size" => Same(a.free_list_size, b.free_list_size)
        /\ \A i \in 0..(MaxEntries - 1) :
              Same(a.free_list_content[i], b.free_list_content[i])

\* a call the claim is about: a setter, with a title shorter than 32 bytes
\* that has no zero byte (a zero byte ends a title)
HeaderSetterCall(o, a) ==
    /\ o \in HeaderSetters
    /\ o = "set_title" => (Len(a) < 32 /\ ZeroFree(a))

\* C13 as claimed: on a 4096 byte page every getter returns zero (the empty
\* title) before its field is written, each setter leaves what every other
\* getter returns unchanged, and after a setter its getter returns the
\* value written.
C13_HeaderFieldsIndependent ==
    /\ []((nops = 0 /\ Len(raw.data) = 4096)
            => /\ Returns(get_title(raw), <<>>)
               /\ Returns(get_version(raw), <<0, 0, 0, 0>>)
               /\ Returns(get_sector_size(raw), U32(0))
               /\ Returns(get_page_size(raw), U32(0))
               /\ Returns(get_free_list_size(raw), U32(0)))
    /\ []((Len(raw.data) = 4096 /\ HeaderSetterCall(op, arg))
            => Returns(HeaderFields(raw)[FieldOf(op)], arg))
    /\ [][(Len(raw.data) = 4096 /\ HeaderSetterCall(op', arg'))
              => SameButField(raw, raw', FieldOf(op'))]_vars

\* C13 without the title's getter after set_title: what holds of the code.
C13_AllButTitleReadBack ==
    /\ []((Len(raw.data) = 4096 /\ HeaderSetterCall(op, arg) /\ op # "set_title")
            => Returns(HeaderFields(raw)[FieldOf(op)], arg))
    /\ [][(Len(raw.data) = 4096 /\ HeaderSetterCall(op', arg'))
              => SameButField(raw, raw', FieldOf(op'))]_vars

----------------------------------------------------------------------------
(* Claims about the content page frame, checked under SpecContent *)

\* C8: after set_ty(d), ty() returns d; set_magic_key and set_next_page_id
\* do not change what ty() returns; and ty() panics exactly when the byte at
\* offset 16 is none of 0, 1, 2, 3, otherwise it returns the discriminant
\* with that number.
C8_TyFollowsByte16 ==
    /\ [](wrapped =>
            /\ (op = "set_ty" /\ ret = Ok) => Returns(ty(raw), arg)
            /\ ty(raw).ok <=> raw.data[CONTENT_TY_OFFSET + 1] \in 0..3
            /\ ty(raw).ok => as_u8(ty(raw).val) = raw.data[CONTENT_TY_OFFSET + 1])
    /\ [][(wrapped /\ op' \in {"set_magic_key", "set_next_page_id"})
              => Same(ty(raw'), ty(raw))]_vars

\* C8 witness: a link was set on a frame whose type, Collection, was set by
\* set_ty before.
C8_Witness ==
    /\ wrapped
    /\ op = "set_next_page_id"
    /\ ret = Ok
    /\ arg # U32(0)
    /\ Returns(ty(raw), "Collection")

\* C8 witness of the corrupt case: the byte 99 at offset 16 and ty() panicked.
C8_WitnessCorrupt ==
    wrapped /\ op = "ty" /\ ret = Panic /\ raw.data[CONTENT_TY_OFFSET + 1] = 99

\* C9: the frame of a fresh page of at least 36 bytes has the link 0; after
\* set_next_page_id(X) the link is X; and no other call on the frame changes
\* the link.
C9_NextPageIdKept ==
    /\ []((op = "ContentPageWrapper::new" /\ nops = 1 /\ Len(raw.data) >= 36)
            => Returns(get_next_page_id(raw), U32(0)))
    /\ []((op = "set_next_page_id" /\ ret = Ok) => Returns(get_next_page_id(raw), arg))
    /\ [][(wrapped /\ op' # "set_next_page_id")
              => Same(get_next_page_id(raw'), get_next_page_id(raw))]_vars

\* C9 witness: the link X was set and a set_ty came after it.
C9_Witness ==
    /\ wrapped
    /\ op = "set_ty"
    /\ ret = Ok
    /\ Returns(get_next_page_id(raw), <<258, 772>>)

====
